---- MODULE Spec2Model ----
(***************************************************************************)
(* Model of the game in src/main.go: the phase machine of Game.Update, the *)
(* spawn / lifetime / scoring engine of Game.updateGame and the Item       *)
(* methods it calls.  One action per handler that Game.Update dispatches   *)
(* to; one step of the model is one call of Game.Update (one tick).        *)
(***************************************************************************)
EXTENDS Integers, Sequences, FiniteSets, TLC

VARIABLES phase, score, items, coolTime, bugID, playerLife, recoveryTime,
          damageTime, op, pressed, events, spawnAge, budget

game == <<phase, score, items, coolTime, bugID, playerLife, recoveryTime, damageTime>>
vars == <<phase, score, items, coolTime, bugID, playerLife, recoveryTime,
          damageTime, op, pressed, events, spawnAge, budget>>

(***************************************************************************)
(* Program constants.                                                      *)
(***************************************************************************)
screenWidth == 1920
screenHeight == 1080
PhaseTitle == 0
PhaseGame == 1
PhaseGameOver == 2
maxRecoveryTime == 30
maxDamageTime == 5
initPlayerLife == 3
maxPlayerLife == 6
Rows == 3
Cols == 4
RecoveryLifetime == 400
MinCoolTime == 5
MaxCoolTime == 60
MinLifetime == 100
MaxLifetime == 400
MinBaseScore == 10
RecoveryScore == 100

(***************************************************************************)
(* Bounds of the model.  The random source and the pointer are inputs; the *)
(* bounds cut the sets they are drawn from, so every behaviour of the      *)
(* model is a behaviour of the program.                                    *)
(***************************************************************************)
\* rand.Intn(len(g.items)) is drawn from 0 .. MaxRowRoll-1
MaxRowRoll == 1
\* rand.Intn(len(g.items[j])) is drawn from 0 .. MaxColRoll-1
MaxColRoll == 1
\* rand.Intn(int(coolTime)) is drawn from 0 .. MaxCoolRoll
MaxCoolRoll == 1
\* the pointer is inside the bounds of at most MaxHover items at once
MaxHover == 1
\* successful spawns explored in one behaviour that starts with a new game
MaxSpawns == 3
\* successful spawns explored in one behaviour that starts with a session in progress
MaxSessionSpawns == 1

Min(a, b) == IF a < b THEN a ELSE b
Max(a, b) == IF a > b THEN a ELSE b

\* rand.Intn(n), cut to its first cap outcomes
Intn(n, cap) == 0 .. (Min(n, cap) - 1)

Slots == (0 .. Rows - 1) \X (0 .. Cols - 1)

\* a nil *Item
Nil == <<>>
IsNil(it) == it = <<>>

(***************************************************************************)
(* The difficulty curve.  math.Log(score)/math.Log(10) is taken on real    *)
(* numbers here: Pow10Hundredths[k] is floor(10^(k/100)), so that for an   *)
(* integer s >= 1, s <= Pow10Hundredths[k] iff log10(s) <= k/100; likewise *)
(* Pow10Fifteenths for 10^(k/15).  The float64 evaluation of the source    *)
(* agrees with the real one on every score up to 400000 (the nearest miss  *)
(* is 7e-7 away from an integer, and the exact powers of ten fall on the   *)
(* same side).  Score 0 gives math.Log(0) = -Inf and the upper clamp.      *)
(***************************************************************************)
\* floor(10^(k/100)) for k = 100 .. 399
Pow10Hundredths ==
    << 10, 10, 10, 10, 10, 11, 11, 11, 12, 12, 12, 12,
       13, 13, 13, 14, 14, 14, 15, 15, 15, 16, 16, 16,
       17, 17, 18, 18, 19, 19, 19, 20, 20, 21, 21, 22,
       22, 23, 23, 24, 25, 25, 26, 26, 27, 28, 28, 29,
       30, 30, 31, 32, 33, 33, 34, 35, 36, 37, 38, 38,
       39, 40, 41, 42, 43, 44, 45, 46, 47, 48, 50, 51,
       52, 53, 54, 56, 57, 58, 60, 61, 63, 64, 66, 67,
       69, 70, 72, 74, 75, 77, 79, 81, 83, 85, 87, 89,
       91, 93, 95, 97, 100, 102, 104, 107, 109, 112, 114, 117,
       120, 123, 125, 128, 131, 134, 138, 141, 144, 147, 151, 154,
       158, 162, 165, 169, 173, 177, 181, 186, 190, 194, 199, 204,
       208, 213, 218, 223, 229, 234, 239, 245, 251, 257, 263, 269,
       275, 281, 288, 295, 301, 309, 316, 323, 331, 338, 346, 354,
       363, 371, 380, 389, 398, 407, 416, 426, 436, 446, 457, 467,
       478, 489, 501, 512, 524, 537, 549, 562, 575, 588, 602, 616,
       630, 645, 660, 676, 691, 707, 724, 741, 758, 776, 794, 812,
       831, 851, 870, 891, 912, 933, 954, 977, 1000, 1023, 1047, 1071,
       1096, 1122, 1148, 1174, 1202, 1230, 1258, 1288, 1318, 1348, 1380, 1412,
       1445, 1479, 1513, 1548, 1584, 1621, 1659, 1698, 1737, 1778, 1819, 1862,
       1905, 1949, 1995, 2041, 2089, 2137, 2187, 2238, 2290, 2344, 2398, 2454,
       2511, 2570, 2630, 2691, 2754, 2818, 2884, 2951, 3019, 3090, 3162, 3235,
       3311, 3388, 3467, 3548, 3630, 3715, 3801, 3890, 3981, 4073, 4168, 4265,
       4365, 4466, 4570, 4677, 4786, 4897, 5011, 5128, 5248, 5370, 5495, 5623,
       5754, 5888, 6025, 6165, 6309, 6456, 6606, 6760, 6918, 7079, 7244, 7413,
       7585, 7762, 7943, 8128, 8317, 8511, 8709, 8912, 9120, 9332, 9549, 9772 >>

\* floor(10^((75 - c)/15)) for c = 60, 59, .. 6
Pow10Fifteenths ==
    << 10, 11, 13, 15, 18, 21, 25, 29, 34, 39, 46, 54,
       63, 73, 85, 100, 116, 135, 158, 184, 215, 251, 292, 341,
       398, 464, 541, 630, 735, 857, 1000, 1165, 1359, 1584, 1847, 2154,
       2511, 2928, 3414, 3981, 4641, 5411, 6309, 7356, 8576, 10000, 11659, 13593,
       15848, 18478, 21544, 25118, 29286, 34145, 39810 >>

\* a lifetime without the upper clamp at score 0
LifetimeNoUpperClamp(s) ==
    IF s = 0 THEN MaxLifetime + MinLifetime
    ELSE MinLifetime
         + Cardinality({k \in MinLifetime .. MaxLifetime - 1 : s <= Pow10Hundredths[k - 99]})

\* int(min(400, max(100, 100 * (5 - log10(score)))))
Lifetime(s) ==
    IF s = 0 THEN MaxLifetime
    ELSE MinLifetime
         + Cardinality({k \in MinLifetime .. MaxLifetime - 1 : s <= Pow10Hundredths[k - 99]})

\* a cool time that runs the other way: 5 at score 0, 60 from score 39811 on
CoolTimeBaseRising(s) ==
    IF s = 0 THEN MinCoolTime
    ELSE MaxCoolTime
         - Cardinality({c \in MinCoolTime + 1 .. MaxCoolTime : s <= Pow10Fifteenths[61 - c]})

\* int(min(60, max(5, 15 * (5 - log10(score)))))
CoolTimeBase(s) ==
    IF s = 0 THEN MaxCoolTime
    ELSE MinCoolTime
         + Cardinality({c \in MinCoolTime + 1 .. MaxCoolTime : s <= Pow10Fifteenths[61 - c]})

\* the greatest k in lo .. hi with k * k <= n, by bisection
RECURSIVE ISqrtIn(_, _, _)
ISqrtIn(n, lo, hi) ==
    IF lo = hi THEN lo
    ELSE LET mid == (lo + hi + 1) \div 2
         IN  IF mid * mid <= n THEN ISqrtIn(n, mid, hi) ELSE ISqrtIn(n, lo, mid - 1)
\* floor(sqrt(n))
ISqrt(n) == ISqrtIn(n, 0, Min(n, 46340))

\* int(max(10, math.Sqrt(float64(score))))
BaseScore(s) == Max(MinBaseScore, ISqrt(s))


(***************************************************************************)
(* Item.                                                                   *)
(***************************************************************************)
NewItem(label, centerX, centerY, recovery, lifetime, baseScore) ==
    [label |-> label, centerX |-> centerX, centerY |-> centerY,
     recovery |-> recovery, hovered |-> FALSE, resolved |-> FALSE,
     initLifetime |-> lifetime, lifetime |-> lifetime, baseScore |-> baseScore]

\* an item whose lifetime stands still while the pointer is inside it
ItemUpdateHeld(it, hit, press) ==
    [it EXCEPT !.lifetime = IF it.lifetime > 0 /\ ~hit THEN it.lifetime - 1 ELSE it.lifetime,
               !.hovered = hit,
               !.resolved = it.resolved \/ (hit /\ press)]

\* Item.Update: hit is "the pointer is inside i.Bounds()", press is justPressed()
ItemUpdate(it, hit, press) ==
    [it EXCEPT !.lifetime = IF it.lifetime > 0 THEN it.lifetime - 1 ELSE it.lifetime,
               !.hovered = hit,
               !.resolved = it.resolved \/ (hit /\ press)]

Resolved(it) == it.resolved

\* an item that is still alive when its lifetime has run out
AliveAtZero(it) == it.lifetime >= 0

\* Item.Alive
Alive(it) == it.lifetime > 0

\* <<initLifetime, baseScore, lifetime>> at which the float64 product
\* float64(baseScore) * math.Sqrt(float64(lifetime)/float64(initLifetime)) lies just
\* under the integer that the real product equals, so that int() gives one less:
\* all such triples with initLifetime = Lifetime(s), baseScore = BaseScore(s), s <= 160000
FloatShort ==
    { <<121, 77, 81>>, <<100, 170, 49>>, <<100, 180, 49>>, <<100, 330, 49>>,
      <<100, 340, 49>>, <<100, 350, 49>>, <<100, 360, 49>> }

\* a score that is one short
ItemScoreOneShort(it) ==
    ISqrt((it.baseScore * it.baseScore * it.lifetime) \div it.initLifetime) - 1

\* Item.Score: int(float64(baseScore) * math.Sqrt(float64(lifetime)/float64(initLifetime)))
ItemScore(it) ==
    LET exact == ISqrt((it.baseScore * it.baseScore * it.lifetime) \div it.initLifetime)
    IN  IF <<it.initLifetime, it.baseScore, it.lifetime>> \in FloatShort
        THEN exact - 1 ELSE exact

(***************************************************************************)
(* Game.updateGame, the spawn attempt (main.go 158-231).                   *)
(***************************************************************************)
\* a recovery draw that does not look at the score
RecoveryDrawsAnyScore(s, life) ==
    IF life < 2 THEN {r = 0 : r \in Intn(3, 3)}
    ELSE IF life < 4 THEN {r = 0 : r \in Intn(5, 5)}
    ELSE IF life < maxPlayerLife THEN {r = 0 : r \in Intn(10, 10)}
    ELSE {FALSE}

\* the outcomes of the recovery draw: no draw below 100 stars or at full life
RecoveryDraws(s, life) ==
    IF s >= RecoveryScore
    THEN IF life < 2 THEN {r = 0 : r \in Intn(3, 3)}
         ELSE IF life < 4 THEN {r = 0 : r \in Intn(5, 5)}
         ELSE IF life < maxPlayerLife THEN {r = 0 : r \in Intn(10, 10)}
         ELSE {FALSE}
    ELSE {FALSE}

CenterX(i) ==
    LET width == (screenWidth - 128) \div Cols IN i * width + width \div 2 + 128 \div 2

CenterY(j) ==
    LET height == (screenHeight - 128 - 64) \div Rows
    IN  j * height + height \div 2 + 128 \div 2 + 64

RecoveryLabels == <<"CONTRI-\nBUTION", "SPONSORING">>
BugLabels == <<"BUG", "FEATURE\nREQUEST">>

\* a bug built with the lifetime and base score of score 0, whatever the score
SpawnedItemAtZero(j, i, recovery, labelRoll, id, s) ==
    IF recovery
    THEN NewItem(<<RecoveryLabels[labelRoll + 1]>>, CenterX(i), CenterY(j), TRUE,
                 RecoveryLifetime, 0)
    ELSE NewItem(<<BugLabels[labelRoll + 1], id>>, CenterX(i), CenterY(j), FALSE,
                 MaxLifetime, MinBaseScore)

\* a bug labelled with the bug id before its increment
SpawnedItemOldId(j, i, recovery, labelRoll, id, s) ==
    IF recovery
    THEN NewItem(<<RecoveryLabels[labelRoll + 1]>>, CenterX(i), CenterY(j), TRUE,
                 RecoveryLifetime, 0)
    ELSE NewItem(<<BugLabels[labelRoll + 1], id - 1>>, CenterX(i), CenterY(j), FALSE,
                 Lifetime(s), BaseScore(s))

\* the item built at slot <<j, i>>: labelRoll is rand.Intn(2), id the new g.bugID
SpawnedItem(j, i, recovery, labelRoll, id, s) ==
    IF recovery
    THEN NewItem(<<RecoveryLabels[labelRoll + 1]>>, CenterX(i), CenterY(j), TRUE,
                 RecoveryLifetime, 0)
    ELSE NewItem(<<BugLabels[labelRoll + 1], id>>, CenterX(i), CenterY(j), FALSE,
                 Lifetime(s), BaseScore(s))

\* a cool time that is the random part alone
NewCoolTimeRollOnly(s, coolRoll) == coolRoll

\* g.coolTime after a successful spawn: int(coolTime) + rand.Intn(int(coolTime))
NewCoolTime(s, coolRoll) == CoolTimeBase(s) + coolRoll

\* a spawn attempt that takes the drawn slot whether or not an item is in it
SlotFreeAlways(board, slot) == TRUE

\* g.items[j][i] == nil
SlotFree(board, slot) == IsNil(board[slot])

\* The board, cool time and bug id after the spawn attempt of one tick, for every
\* outcome of the random draws; ct is g.coolTime after its decrement.
SpawnOutcomes(ct) ==
    IF ct # 0
    THEN {[items |-> items, coolTime |-> ct, bugID |-> bugID, events |-> <<>>]}
    ELSE UNION { IF ~SlotFree(items, <<j, i>>)
                 THEN {[items |-> items, coolTime |-> ct, bugID |-> bugID,
                        events |-> <<[type |-> "Rejected", slot |-> <<j, i>>]>>]}
                 ELSE IF budget = 0 THEN {}
                 ELSE { [items |-> [items EXCEPT ![<<j, i>>] =
                                     <<SpawnedItem(j, i, recovery, labelRoll, bugID + 1, score)>>],
                         coolTime |-> NewCoolTime(score, coolRoll),
                         bugID |-> IF recovery THEN bugID ELSE bugID + 1,
                         events |-> <<[type |-> "Spawned", slot |-> <<j, i>>,
                                       recovery |-> recovery]>>] :
                        <<recovery, labelRoll, coolRoll>> \in
                            RecoveryDraws(score, playerLife) \X Intn(2, 2)
                            \X Intn(CoolTimeBase(score), MaxCoolRoll + 1) }
               : <<j, i>> \in Intn(Rows, MaxRowRoll) \X Intn(Cols, MaxColRoll) }

(***************************************************************************)
(* Game.updateGame, the loop over the board (main.go 233-262).  g is the   *)
(* part of the game the loop reads and writes, k the index of the slot in  *)
(* the order of the two nested range loops.                                *)
(***************************************************************************)
SlotAt(k) == <<k \div Cols, k % Cols>>

\* a loop body in which an item whose lifetime has run out expires, resolved or not
UpdateSlotExpiryFirst(g, slot, hover, press) ==
    IF IsNil(g.items[slot]) THEN g
    ELSE LET it == ItemUpdate(g.items[slot][1], slot \in hover, press) IN
         IF Resolved(it) /\ Alive(it)
         THEN [g EXCEPT !.score = g.score + ItemScore(it),
                        !.playerLife = IF it.recovery THEN g.playerLife + 1
                                       ELSE g.playerLife,
                        !.recoveryTime = IF it.recovery THEN maxRecoveryTime
                                         ELSE g.recoveryTime,
                        !.items[slot] = Nil,
                        !.events = Append(g.events,
                                     [type |-> "Resolved", slot |-> slot,
                                      score |-> ItemScore(it), recovery |-> it.recovery,
                                      life |-> IF it.recovery THEN g.playerLife + 1
                                               ELSE g.playerLife])]
         ELSE IF Alive(it)
         THEN [g EXCEPT !.items[slot] = <<it>>]
         ELSE [g EXCEPT !.items[slot] = Nil,
                        !.damageTime = maxDamageTime,
                        !.playerLife = g.playerLife - 1,
                        !.phase = IF g.playerLife - 1 <= 0 THEN PhaseGameOver
                                  ELSE g.phase,
                        !.events = Append(g.events,
                                     [type |-> "Expired", slot |-> slot,
                                      recovery |-> it.recovery,
                                      life |-> g.playerLife - 1])]

\* a loop body in which a recovery item that expires costs no life
UpdateSlotRecoveryFree(g, slot, hover, press) ==
    IF IsNil(g.items[slot]) THEN g
    ELSE LET it == ItemUpdate(g.items[slot][1], slot \in hover, press) IN
         IF Resolved(it)
         THEN [g EXCEPT !.score = g.score + ItemScore(it),
                        !.playerLife = IF it.recovery THEN g.playerLife + 1
                                       ELSE g.playerLife,
                        !.recoveryTime = IF it.recovery THEN maxRecoveryTime
                                         ELSE g.recoveryTime,
                        !.items[slot] = Nil,
                        !.events = Append(g.events,
                                     [type |-> "Resolved", slot |-> slot,
                                      score |-> ItemScore(it), recovery |-> it.recovery,
                                      life |-> IF it.recovery THEN g.playerLife + 1
                                               ELSE g.playerLife])]
         ELSE IF Alive(it)
         THEN [g EXCEPT !.items[slot] = <<it>>]
         ELSE [g EXCEPT !.items[slot] = Nil,
                        !.damageTime = maxDamageTime,
                        !.playerLife = g.playerLife - (IF it.recovery THEN 0 ELSE 1),
                        !.phase = IF g.playerLife - (IF it.recovery THEN 0 ELSE 1) <= 0 THEN PhaseGameOver
                                  ELSE g.phase,
                        !.events = Append(g.events,
                                     [type |-> "Expired", slot |-> slot,
                                      recovery |-> it.recovery,
                                      life |-> g.playerLife - (IF it.recovery THEN 0 ELSE 1)])]

\* a loop body in which an item that expires costs no life
UpdateSlotExpiryFree(g, slot, hover, press) ==
    IF IsNil(g.items[slot]) THEN g
    ELSE LET it == ItemUpdate(g.items[slot][1], slot \in hover, press) IN
         IF Resolved(it)
         THEN [g EXCEPT !.score = g.score + ItemScore(it),
                        !.playerLife = IF it.recovery THEN g.playerLife + 1
                                       ELSE g.playerLife,
                        !.recoveryTime = IF it.recovery THEN maxRecoveryTime
                                         ELSE g.recoveryTime,
                        !.items[slot] = Nil,
                        !.events = Append(g.events,
                                     [type |-> "Resolved", slot |-> slot,
                                      score |-> ItemScore(it), recovery |-> it.recovery,
                                      life |-> IF it.recovery THEN g.playerLife + 1
                                               ELSE g.playerLife])]
         ELSE IF Alive(it)
         THEN [g EXCEPT !.items[slot] = <<it>>]
         ELSE [g EXCEPT !.items[slot] = Nil,
                        !.damageTime = maxDamageTime,
                        !.playerLife = g.playerLife,
                        !.phase = IF g.playerLife <= 0 THEN PhaseGameOver
                                  ELSE g.phase,
                        !.events = Append(g.events,
                                     [type |-> "Expired", slot |-> slot,
                                      recovery |-> it.recovery,
                                      life |-> g.playerLife])]

\* the body of the loop over the board for one slot
UpdateSlot(g, slot, hover, press) ==
    IF IsNil(g.items[slot]) THEN g
    ELSE LET it == ItemUpdate(g.items[slot][1], slot \in hover, press) IN
         IF Resolved(it)
         THEN [g EXCEPT !.score = g.score + ItemScore(it),
                        !.playerLife = IF it.recovery THEN g.playerLife + 1
                                       ELSE g.playerLife,
                        !.recoveryTime = IF it.recovery THEN maxRecoveryTime
                                         ELSE g.recoveryTime,
                        !.items[slot] = Nil,
                        !.events = Append(g.events,
                                     [type |-> "Resolved", slot |-> slot,
                                      score |-> ItemScore(it), recovery |-> it.recovery,
                                      life |-> IF it.recovery THEN g.playerLife + 1
                                               ELSE g.playerLife])]
         ELSE IF Alive(it)
         THEN [g EXCEPT !.items[slot] = <<it>>]
         ELSE [g EXCEPT !.items[slot] = Nil,
                        !.damageTime = maxDamageTime,
                        !.playerLife = g.playerLife - 1,
                        !.phase = IF g.playerLife - 1 <= 0 THEN PhaseGameOver
                                  ELSE g.phase,
                        !.events = Append(g.events,
                                     [type |-> "Expired", slot |-> slot,
                                      recovery |-> it.recovery,
                                      life |-> g.playerLife - 1])]

\* the loop over the board from slot k on; h is g, evaluated once
RECURSIVE UpdateSlots(_, _, _, _)
UpdateSlots(g, k, hover, press) ==
    IF k = Rows * Cols THEN g
    ELSE CHOOSE r \in {UpdateSlots(UpdateSlot(h, SlotAt(k), hover, press), k + 1, hover, press) :
                        h \in {g}} : TRUE

Occupied(board) == {slot \in Slots : ~IsNil(board[slot])}

\* the sets of items the pointer can be inside of
HoverSets(board) == {h \in SUBSET Occupied(board) : Cardinality(h) <= MaxHover}

(***************************************************************************)
(* The handlers.                                                           *)
(***************************************************************************)
Init ==
    /\ phase = PhaseTitle
    /\ score = 0
    /\ items = [slot \in Slots |-> Nil]
    /\ coolTime = 0
    /\ bugID = 0
    /\ playerLife = 0
    /\ recoveryTime = 0
    /\ damageTime = 0
    /\ op = "new"
    /\ pressed = FALSE
    /\ events = <<>>
    /\ spawnAge = MinCoolTime
    /\ budget = MaxSpawns

\* a reset that leaves the board as it is
initGameKeepBoard ==
    /\ score' = 0
    /\ items' = items
    /\ coolTime' = 0
    /\ bugID' = 0
    /\ playerLife' = initPlayerLife
    /\ recoveryTime' = 0
    /\ damageTime' = 0

\* Game.initGame
initGame ==
    /\ score' = 0
    /\ items' = [slot \in Slots |-> Nil]
    /\ coolTime' = 0
    /\ bugID' = 0
    /\ playerLife' = initPlayerLife
    /\ recoveryTime' = 0
    /\ damageTime' = 0

\* Game.updateTitle
updateTitle ==
    /\ phase = PhaseTitle
    /\ \E press \in BOOLEAN :
          /\ pressed' = press
          /\ IF press
             THEN initGame /\ phase' = PhaseGame
             ELSE UNCHANGED game
    /\ op' = "updateTitle"
    /\ events' = <<>>
    /\ spawnAge' = IF pressed' THEN MinCoolTime ELSE spawnAge
    /\ UNCHANGED budget

\* Game.updateGame
updateGame ==
    /\ phase = PhaseGame
    /\ \E press \in BOOLEAN :
       \E sp \in SpawnOutcomes(IF coolTime > 0 THEN coolTime - 1 ELSE coolTime) :
       \E hover \in HoverSets(sp.items) :
          \E g \in {UpdateSlots(
                     [phase |-> phase, score |-> score, items |-> sp.items,
                      playerLife |-> playerLife,
                      recoveryTime |-> IF recoveryTime > 0 THEN recoveryTime - 1
                                       ELSE recoveryTime,
                      damageTime |-> IF damageTime > 0 THEN damageTime - 1
                                     ELSE damageTime,
                      events |-> sp.events],
                     0, hover, press)} :
              /\ phase' = g.phase
              /\ score' = g.score
              /\ items' = g.items
              /\ coolTime' = sp.coolTime
              /\ bugID' = sp.bugID
              /\ playerLife' = g.playerLife
              /\ recoveryTime' = g.recoveryTime
              /\ damageTime' = g.damageTime
              /\ pressed' = press
              /\ events' = g.events
              /\ spawnAge' = IF sp.items # items THEN 0
                             ELSE Min(spawnAge + 1, MinCoolTime)
              /\ budget' = budget - (IF sp.items # items THEN 1 ELSE 0)
    /\ op' = "updateGame"

\* a game over screen that any tick leaves
updateGameOverAnyTick ==
    /\ phase = PhaseGameOver
    /\ damageTime' = IF damageTime > 0 THEN damageTime - 1 ELSE damageTime
    /\ \E press \in BOOLEAN :
          /\ pressed' = press
          /\ phase' = PhaseTitle
    /\ UNCHANGED <<score, items, coolTime, bugID, playerLife, recoveryTime,
                   spawnAge, budget>>
    /\ op' = "updateGameOver"
    /\ events' = <<>>

\* a game over screen behind which the items keep ageing
updateGameOverAgeing ==
    /\ phase = PhaseGameOver
    /\ damageTime' = IF damageTime > 0 THEN damageTime - 1 ELSE damageTime
    /\ items' = [slot \in Slots |->
                   IF IsNil(items[slot]) THEN Nil
                   ELSE <<ItemUpdate(items[slot][1], FALSE, FALSE)>>]
    /\ \E press \in BOOLEAN :
          /\ pressed' = press
          /\ phase' = IF press THEN PhaseTitle ELSE phase
    /\ UNCHANGED <<score, coolTime, bugID, playerLife, recoveryTime, spawnAge, budget>>
    /\ op' = "updateGameOver"
    /\ events' = <<>>

\* Game.updateGameOver
updateGameOver ==
    /\ phase = PhaseGameOver
    /\ damageTime' = IF damageTime > 0 THEN damageTime - 1 ELSE damageTime
    /\ \E press \in BOOLEAN :
          /\ pressed' = press
          /\ phase' = IF press THEN PhaseTitle ELSE phase
    /\ UNCHANGED <<score, items, coolTime, bugID, playerLife, recoveryTime,
                   spawnAge, budget>>
    /\ op' = "updateGameOver"
    /\ events' = <<>>

\* Game.Update
Next == updateTitle \/ updateGame \/ updateGameOver

Spec == Init /\ [][Next]_vars

\* the driver calls Game.Update in every tick
SpecLive == Init /\ [][Next]_vars /\ WF_vars(Next)

(***************************************************************************)
(* Sessions in progress.  A recovery item needs 100 stars, which no        *)
(* session has before its twelfth resolved item, so the sessions with      *)
(* recovery items are entered at states a session reaches on the way.      *)
(* Each has one item in slot <<0, 1>> and the rest of the board empty:     *)
(*  - FullLife: twelve bugs resolved in the tick they spawn in (9 stars    *)
(*    each), two recovery items resolved, and a third recovery item        *)
(*    spawned in the last tick with cool time 44 + 0;                      *)
(*  - LastLife: the first two bugs expire, the next twelve are resolved in *)
(*    the tick they spawn in, and a recovery item spawned in the last tick *)
(*    with cool time 44 + 0;                                               *)
(*  - LastLifeLate: as LastLife, the recovery item spawned 107 ticks ago   *)
(*    with cool time 44 + 16; bug 15 spawned 47 ticks ago with cool time   *)
(*    44 + 3 and was resolved in that tick;                                *)
(*  - NearHundred: the first two bugs expire, the next eleven are resolved *)
(*    in the tick they spawn in, and bug 14 spawned in the last tick with  *)
(*    cool time 45 + 0.                                                    *)
(***************************************************************************)
LingeringRecovery(lifetime) ==
    [NewItem(<<RecoveryLabels[2]>>, CenterX(1), CenterY(0), TRUE, RecoveryLifetime, 0)
       EXCEPT !.lifetime = lifetime]

LingeringBug(id, s, lifetime) ==
    [NewItem(<<BugLabels[1], id>>, CenterX(1), CenterY(0), FALSE, Lifetime(s), BaseScore(s))
       EXCEPT !.lifetime = lifetime]

FullLife ==
    [score |-> 108, playerLife |-> 5, bugID |-> 12, coolTime |-> 44,
     item |-> LingeringRecovery(399), spawnAge |-> 0,
     events |-> <<[type |-> "Spawned", slot |-> <<0, 1>>, recovery |-> TRUE]>>]

LastLife ==
    [score |-> 108, playerLife |-> 1, bugID |-> 14, coolTime |-> 44,
     item |-> LingeringRecovery(399), spawnAge |-> 0,
     events |-> <<[type |-> "Spawned", slot |-> <<0, 1>>, recovery |-> TRUE]>>]

LastLifeLate ==
    [score |-> 117, playerLife |-> 1, bugID |-> 15, coolTime |-> 1,
     item |-> LingeringRecovery(293), spawnAge |-> MinCoolTime, events |-> <<>>]

NearHundred ==
    [score |-> 99, playerLife |-> 1, bugID |-> 14, coolTime |-> 45,
     item |-> LingeringBug(14, 99, 299), spawnAge |-> 0,
     events |-> <<[type |-> "Spawned", slot |-> <<0, 1>>, recovery |-> FALSE]>>]

Sessions == {FullLife, LastLife, LastLifeLate, NearHundred}

InitSession ==
    \E s \in Sessions :
       /\ phase = PhaseGame
       /\ score = s.score
       /\ items = [slot \in Slots |-> IF slot = <<0, 1>> THEN <<s.item>> ELSE Nil]
       /\ coolTime = s.coolTime
       /\ bugID = s.bugID
       /\ playerLife = s.playerLife
       /\ recoveryTime = 0
       /\ damageTime = 0
       /\ op = "updateGame"
       /\ pressed = FALSE
       /\ events = s.events
       /\ spawnAge = s.spawnAge
       /\ budget = MaxSessionSpawns

SpecSession == InitSession /\ [][Next]_vars

(***************************************************************************)
(* Sessions at the scores where the difficulty curve turns.  Every score   *)
(* is reached by resolving bugs, the draw taking slot <<0, 0>> each time   *)
(* (an attempt at the occupied slot is rejected and tried again in the     *)
(* next tick):                                                             *)
(*  - FreshGame: the state initGame leaves;                                *)
(*  - FirstStar: the first two bugs expire, bug 3 is resolved 384 ticks    *)
(*    after its spawn, with 15 of its 400 ticks left, for 1 star; this is  *)
(*    the state after that tick;                                           *)
(*  - Reached(s, n): the first two bugs expire, the next n are resolved    *)
(*    and add up to s stars, the last of them in the tick it spawns in;    *)
(*    the cool time it set has run down to 1 on an empty board.            *)
(* n is the least number of bugs that add up to s.                         *)
(***************************************************************************)
FreshGame ==
    [score |-> 0, playerLife |-> initPlayerLife, bugID |-> 0, coolTime |-> 0,
     op |-> "updateTitle", pressed |-> TRUE, events |-> <<>>]

FirstStar ==
    [score |-> 1, playerLife |-> 1, bugID |-> 3, coolTime |-> 0,
     op |-> "updateGame", pressed |-> TRUE,
     events |-> <<[type |-> "Rejected", slot |-> <<0, 0>>],
                  [type |-> "Resolved", slot |-> <<0, 0>>, score |-> 1,
                   recovery |-> FALSE, life |-> 1]>>]

Reached(s, n) ==
    [score |-> s, playerLife |-> 1, bugID |-> n + 2, coolTime |-> 1,
     op |-> "updateGame", pressed |-> FALSE, events |-> <<>>]

\* <<stars, bugs resolved>>
CurvePoints ==
    { <<9, 1>>, <<10, 2>>, <<11, 2>>, <<99, 11>>, <<100, 12>>, <<101, 12>>,
      <<999, 59>>, <<1000, 59>>, <<1001, 59>>, <<6026, 154>>,
      <<9999, 200>>, <<10000, 200>>, <<10001, 200>>, <<28900, 342>>,
      <<39810, 401>>, <<39811, 402>>, <<39812, 402>>,
      <<99999, 637>>, <<100000, 637>>, <<100001, 637>> }

CurveSessions == {FreshGame, FirstStar} \cup {Reached(p[1], p[2]) : p \in CurvePoints}

\* the scores of the sessions
CurveScores == {s.score : s \in CurveSessions}

InitCurve ==
    \E s \in CurveSessions :
       /\ phase = PhaseGame
       /\ score = s.score
       /\ items = [slot \in Slots |-> Nil]
       /\ coolTime = s.coolTime
       /\ bugID = s.bugID
       /\ playerLife = s.playerLife
       /\ recoveryTime = 0
       /\ damageTime = 0
       /\ op = s.op
       /\ pressed = s.pressed
       /\ events = s.events
       /\ spawnAge = MinCoolTime
       /\ budget = MaxSessionSpawns

SpecCurve == InitCurve /\ [][Next]_vars

(***************************************************************************)
(* The claims.  events holds what the last tick did, in the order it did   *)
(* it; pressed is the last tick's justPressed().                           *)
(***************************************************************************)
EventsOfType(ev, type) == {k \in 1 .. Len(ev) : ev[k].type = type}

RECURSIVE SumResolved(_, _)
SumResolved(ev, k) ==
    IF k > Len(ev) THEN 0
    ELSE (IF ev[k].type = "Resolved" THEN ev[k].score ELSE 0) + SumResolved(ev, k + 1)

Dec(n) == IF n > 0 THEN n - 1 ELSE n

\* the item b is the item a one tick older
Aged(a, b) ==
    /\ b.label = a.label /\ b.centerX = a.centerX /\ b.centerY = a.centerY
    /\ b.recovery = a.recovery /\ b.initLifetime = a.initLifetime
    /\ b.baseScore = a.baseScore /\ b.lifetime = a.lifetime - 1

\* C1: in every reachable state the player's life is at most maxPlayerLife (6);
\* resolving a recovery item at 6 leaves it at 6.
C1_LifeAtMostMax == playerLife <= maxPlayerLife

\* C2: after every tick of a session, the phase is GameOver if and only if the
\* life is 0 or less: at least 1 while the game is played, not positive once it is over.
C2_GameOverIffNoLife ==
    /\ phase = PhaseGame => playerLife >= 1
    /\ phase = PhaseGameOver => playerLife <= 0

\* C3: the life is never negative after a tick, also when several items expire in it.
C3_LifeNotNegative == playerLife >= 0

\* C4: the phase changes only from Title to Game on a press, from Game to GameOver in
\* a tick in which an expired item leaves the life at 0 or less, and from GameOver to
\* Title on a press; a press in Game changes nothing of this, and without a press
\* Title and GameOver stay.
C4_PhaseMachine ==
    [][ LET lastLife == \E k \in EventsOfType(events', "Expired") : events'[k].life <= 0
        IN  /\ phase = PhaseTitle =>
                 phase' = (IF pressed' THEN PhaseGame ELSE PhaseTitle)
            /\ phase = PhaseGame =>
                 phase' = (IF lastLife THEN PhaseGameOver ELSE PhaseGame)
            /\ phase = PhaseGameOver =>
                 phase' = (IF pressed' THEN PhaseTitle ELSE PhaseGameOver) ]_vars

\* C4 witness: the title screen, reached again from a game that was played and lost
C4_BackAtTitle == phase = PhaseTitle /\ op = "updateGameOver" /\ pressed /\ budget < MaxSpawns

\* C5: right after the tick that leaves the title screen the session is new, whatever
\* the last session left: no stars, 3 lives, no cool time, no bug id, no glow, no
\* flash, an empty board, and nothing spawned, resolved or expired in that tick.
C5_StartIsReset ==
    (op = "updateTitle" /\ phase = PhaseGame) =>
       /\ score = 0 /\ playerLife = initPlayerLife /\ coolTime = 0 /\ bugID = 0
       /\ recoveryTime = 0 /\ damageTime = 0
       /\ \A slot \in Slots : IsNil(items[slot])
       /\ events = <<>>

\* C5 witness: a game started from the title screen after a session that spawned an item
C5_Restarted == op = "updateTitle" /\ phase = PhaseGame /\ budget < MaxSessionSpawns

\* C6: a tick of the game spawns at most one item, only into a slot that was empty
\* when the tick began; every item that is on the board before and after the tick is
\* the same item, one tick older.
C6_SpawnOnlyIntoEmpty ==
    [][ phase = PhaseGame =>
          LET spawned == EventsOfType(events', "Spawned")
              fresh == {slot \in Slots : IsNil(items[slot]) /\ ~IsNil(items'[slot])}
          IN  /\ Cardinality(spawned) <= 1
              /\ \A k \in spawned : IsNil(items[events'[k].slot])
              /\ Cardinality(fresh) <= 1
              /\ \A slot \in fresh : \E k \in spawned : events'[k].slot = slot
              /\ \A slot \in Slots :
                    (~IsNil(items[slot]) /\ ~IsNil(items'[slot])) =>
                       Aged(items[slot][1], items'[slot][1]) ]_vars

\* C6 witness: the draw took an occupied slot and its item is still there
C6_RejectedAtOccupied ==
    /\ op = "updateGame" /\ events # <<>> /\ events[1].type = "Rejected"
    /\ ~IsNil(items[events[1].slot])

\* C7: a tick attempts a spawn only if the cool time is 0 after its decrement; an
\* attempt at an occupied slot spawns nothing and leaves the cool time 0; only a
\* successful spawn sets the cool time, to base + r with base in 5 .. 60 and
\* 0 <= r < base, so to a value in 5 .. 119; two spawns of a session are at least 5
\* ticks apart.
C7_CoolTimeGatesSpawn ==
    [][ phase = PhaseGame =>
          LET ct == Dec(coolTime)
              tried == events' # <<>> /\ events'[1].type \in {"Spawned", "Rejected"}
              spawned == events' # <<>> /\ events'[1].type = "Spawned"
              base == CoolTimeBase(score)
          IN  /\ tried => ct = 0
              /\ (tried /\ ~spawned) =>
                    /\ coolTime' = 0 /\ bugID' = bugID
                    /\ \A slot \in Slots : IsNil(items[slot]) => IsNil(items'[slot])
              /\ ~spawned => coolTime' = ct
              /\ spawned =>
                    /\ base \in MinCoolTime .. MaxCoolTime
                    /\ coolTime' - base \in 0 .. base - 1
                    /\ coolTime' \in 5 .. 119
                    /\ spawnAge + 1 >= 5 ]_vars

\* C7 witness: a spawn that set the cool time to more than its base
C7_CoolTimeSet ==
    /\ op = "updateGame" /\ events # <<>> /\ events[1].type = "Spawned"
    /\ coolTime > MaxCoolTime

\* a tick of the game whose spawn attempt makes a recovery item (or a bug)
SpawnOf(recovery) ==
    /\ updateGame
    /\ events' # <<>> /\ events'[1].type = "Spawned" /\ events'[1].recovery = recovery

\* the next tick can spawn: its draw can take an empty slot
CanSpawn ==
    /\ phase = PhaseGame /\ Dec(coolTime) = 0 /\ budget > 0
    /\ \E slot \in Intn(Rows, MaxRowRoll) \X Intn(Cols, MaxColRoll) : IsNil(items[slot])

\* C8: no recovery item is spawned below 100 stars (whatever the life) nor at a life
\* of maxPlayerLife or more; with 100 stars and less life both a recovery item and a
\* bug can be spawned.
C8_RecoveryGate ==
    /\ [](CanSpawn =>
            /\ ENABLED SpawnOf(FALSE)
            /\ (score >= 100 /\ playerLife < maxPlayerLife) => ENABLED SpawnOf(TRUE))
    /\ [][ \A k \in EventsOfType(events', "Spawned") :
              events'[k].recovery => (score >= 100 /\ playerLife < maxPlayerLife) ]_vars

\* C8 witness: a tick spawned a bug on the last life below 100 stars
C8_BugOnLastLife ==
    /\ budget < MaxSessionSpawns
    /\ op = "updateGame" /\ events # <<>> /\ events[1].type = "Spawned"
    /\ ~events[1].recovery /\ score < 100 /\ playerLife < 2 /\ phase = PhaseGame

\* C9: from one tick to the next in a session the score never decreases: a tick of
\* the game adds the scores of the items resolved in it, each 0 or more, and nothing
\* else changes the score but the reset that starts a game.
C9_ScoreNeverDecreases ==
    [][ /\ \A k \in EventsOfType(events', "Resolved") : events'[k].score >= 0
        /\ phase = PhaseGame => score' = score + SumResolved(events', 1)
        /\ phase = PhaseGameOver => score' = score
        /\ ~(phase = PhaseTitle /\ phase' = PhaseGame) => score' >= score ]_vars

\* C9 witness: a tick resolved an item for a positive score
C9_Scored ==
    /\ op = "updateGame"
    /\ \E k \in EventsOfType(events, "Resolved") : events[k].score > 0 /\ score >= events[k].score

\* C10: a tick of the game over screen changes the damage flash (one less if
\* positive) and, on a press, the phase, and nothing else: not the board, the score,
\* the life, the cool time, the bug id or the recovery glow; it spawns, resolves and
\* expires nothing.
C10_GameOverFrame ==
    [][ phase = PhaseGameOver =>
          /\ items' = items /\ score' = score /\ playerLife' = playerLife
          /\ coolTime' = coolTime /\ bugID' = bugID /\ recoveryTime' = recoveryTime
          /\ damageTime' = Dec(damageTime)
          /\ events' = <<>>
          /\ phase' = (IF pressed' THEN PhaseTitle ELSE PhaseGameOver) ]_vars

\* C10 witness: a second tick of a game over screen with an item left on the board
C10_FrozenBoard ==
    /\ op = "updateGameOver" /\ phase = PhaseGameOver /\ Occupied(items) # {}
    /\ damageTime < maxDamageTime - 1

\* the items on the board
BoardItems == {items[slot][1] : slot \in Occupied(items)}

\* C11: at every score a session has, 0 included, the lifetime of the curve is in
\* 100 .. 400, the clamped cool time in 5 .. 60 and the base score at least 10; at
\* score 0 they are 400, 60 and 10; what reaches a bug and the cool time is in range
\* (a bug's lifetime in 0 .. 400 and at most its initial lifetime, the cool time in
\* 0 .. 119).
C11_CurveInRange ==
    /\ Lifetime(score) \in 100 .. 400
    /\ CoolTimeBase(score) \in 5 .. 60
    /\ BaseScore(score) >= 10
    /\ score = 0 => (Lifetime(score) = 400 /\ CoolTimeBase(score) = 60 /\ BaseScore(score) = 10)
    /\ \A it \in BoardItems :
          /\ it.initLifetime \in 100 .. 400
          /\ it.lifetime \in 0 .. it.initLifetime
          /\ ~it.recovery => it.baseScore >= 10
    /\ coolTime \in 0 .. 119

\* C11 witness: at score 0 a bug has been spawned with lifetime 400 and base score 10,
\* and the cool time set from 60
C11_SpawnedAtZero ==
    /\ score = 0 /\ op = "updateGame" /\ events # <<>> /\ events[1].type = "Spawned"
    /\ coolTime >= 60
    /\ \E it \in BoardItems : ~it.recovery /\ it.initLifetime = 400 /\ it.baseScore = 10

\* the curve at the scores of the sessions: <<lifetime, cool time, base score>>
CurveAt == [t \in CurveScores |-> <<Lifetime(t), CoolTimeBase(t), BaseScore(t)>>]

\* the curve values v of the score s do not rise above (lifetime, cool time) nor
\* fall below (base score) those of a lower score, and the other way round
MonotoneAt(s, v) ==
    \A t \in CurveScores :
       /\ t <= s => (CurveAt[t][1] >= v[1] /\ CurveAt[t][2] >= v[2] /\ CurveAt[t][3] <= v[3])
       /\ t >= s => (CurveAt[t][1] <= v[1] /\ CurveAt[t][2] <= v[2] /\ CurveAt[t][3] >= v[3])

\* C12: lifetime and clamped cool time do not increase and the base score does not
\* decrease as the score grows: between the score of a state and each of the scores
\* 0, 1, 9 .. 11, 99 .. 101, 999 .. 1001, 6026, 9999 .. 10001, 28900, 39810 .. 39812,
\* 99999 .. 100001, and between the scores before and after every tick that does not
\* lower the score; the lifetime is 400 at score 0, 200 at 1000 and 100 at 100000.
C12_CurveMonotone ==
    /\ [](/\ MonotoneAt(score, <<Lifetime(score), CoolTimeBase(score), BaseScore(score)>>)
          /\ score = 0 => Lifetime(score) = 400
          /\ score = 1000 => Lifetime(score) = 200
          /\ score = 100000 => Lifetime(score) = 100)
    /\ [][ score' >= score =>
              /\ Lifetime(score') <= Lifetime(score)
              /\ CoolTimeBase(score') <= CoolTimeBase(score)
              /\ BaseScore(score') >= BaseScore(score) ]_vars

\* C12 witness: a bug resolved at 1000 stars, where the lifetime is 200, took the
\* session to a score with a shorter lifetime
C12_PastThousand ==
    /\ op = "updateGame" /\ score > 1000 /\ Lifetime(score) < 200
    /\ \E k \in EventsOfType(events, "Resolved") : score - events[k].score = 1000

\* floor(b * sqrt(l / L)) on the reals: the integer square root of floor(b * b * l / L)
ExactScore(b, L, l) == ISqrt((b * b * l) \div L)

\* C13: the score of every resolved item is floor(baseScore * sqrt(lifetime /
\* initLifetime)), taken at the lifetime the item has after the tick's decrement: for
\* an item that was on the board, one less than before the tick; for a bug resolved in
\* the tick it is spawned in, one less than its initial lifetime (9 for base score 10
\* and lifetime 400); it is 0 at lifetime 0.
C13_ScoreIsFloor ==
    [][ \A k \in EventsOfType(events', "Resolved") :
           LET e == events'[k] IN
           IF ~IsNil(items[e.slot])
           THEN LET it == items[e.slot][1] IN
                /\ e.score = ExactScore(it.baseScore, it.initLifetime, it.lifetime - 1)
                /\ it.lifetime = 1 => e.score = 0
           ELSE ~e.recovery =>
                /\ e.score = ExactScore(BaseScore(score), Lifetime(score), Lifetime(score) - 1)
                /\ score < 10 => e.score = 9 ]_vars

\* the item a tick spawned, if the tick left it on the board: ev and board are the
\* events and the board after the tick
SpawnedOnBoard(ev, board) ==
    {board[ev[k].slot][1] : k \in {n \in EventsOfType(ev, "Spawned") : ~IsNil(board[ev[n].slot])}}

\* C14 as claimed: every item spawned at score s, recovery item or bug, has initial
\* lifetime Lifetime(s) and base score BaseScore(s).
C14_AllFromCurve ==
    [][ \A it \in SpawnedOnBoard(events', items') :
           it.initLifetime = Lifetime(score) /\ it.baseScore = BaseScore(score) ]_vars

\* C14: every bug spawned at score s has initial lifetime Lifetime(s) and base score
\* BaseScore(s); every recovery item has initial lifetime 400 and base score 0,
\* whatever the score; after its spawn tick the item has one tick less than its
\* initial lifetime.
C14_BugsFromCurve ==
    [][ \A it \in SpawnedOnBoard(events', items') :
           /\ it.lifetime = it.initLifetime - 1
           /\ IF it.recovery
              THEN it.initLifetime = 400 /\ it.baseScore = 0
              ELSE it.initLifetime = Lifetime(score) /\ it.baseScore = BaseScore(score) ]_vars

\* C14 witness: a bug spawned at 100000 stars with lifetime 100 and base score 316
C14_BugAtHundredThousand ==
    /\ op = "updateGame" /\ score = 100000
    /\ \E it \in SpawnedOnBoard(events, items) :
          ~it.recovery /\ it.initLifetime = 100 /\ it.baseScore = 316

\* the game after the loop over the board of a tick in which the pointer is pressed
\* on the item in the slot
PressedOn(slot) ==
    UpdateSlots([phase |-> phase, score |-> score, items |-> items,
                 playerLife |-> playerLife, recoveryTime |-> Dec(recoveryTime),
                 damageTime |-> Dec(damageTime), events |-> <<>>],
                0, {slot}, TRUE)

\* C15: a tick of the game does exactly one thing to every item that is on the board
\* when it begins: it resolves it, keeps it, or lets it expire.  It keeps only items
\* with lifetime left and lets expire only items whose lifetime has run out; an item
\* pressed in the tick in which its lifetime runs out is resolved: that gives a
\* Resolved event with score 0 and no Expired event for it.
C15_ResolvedBeforeExpired ==
    /\ [](\A slot \in Occupied(items) :
             (phase = PhaseGame /\ items[slot][1].lifetime = 1) =>
                \A g \in {PressedOn(slot)} :
                   /\ \E k \in EventsOfType(g.events, "Resolved") :
                         g.events[k].slot = slot /\ g.events[k].score = 0
                   /\ \A k \in EventsOfType(g.events, "Expired") : g.events[k].slot # slot
                   /\ IsNil(g.items[slot]))
    /\ [][ phase = PhaseGame =>
             \A slot \in Occupied(items) :
                LET it == items[slot][1]
                    resolved == {k \in EventsOfType(events', "Resolved") : events'[k].slot = slot}
                    expired == {k \in EventsOfType(events', "Expired") : events'[k].slot = slot}
                    kept == IF IsNil(items'[slot]) THEN 0 ELSE 1
                IN  /\ Cardinality(resolved) + Cardinality(expired) + kept = 1
                    /\ kept = 1 => it.lifetime > 1
                    /\ expired # {} => it.lifetime = 1
                    /\ resolved # {} => pressed'
                    /\ \A k \in resolved : it.lifetime = 1 => events'[k].score = 0 ]_vars

\* C15 witness: the recovery item of LastLifeLate and the bug spawned in the first tick
\* run out in the same tick; the bug has expired and the recovery item, pressed in
\* that tick, is resolved for no stars
C15_ResolvedAtLastTick ==
    /\ op = "updateGame" /\ score = 117 /\ bugID = 16
    /\ \E k \in EventsOfType(events, "Expired") :
          events[k].slot = <<0, 0>> /\ ~events[k].recovery
    /\ \E k \in EventsOfType(events, "Resolved") :
          events[k].slot = <<0, 1>> /\ events[k].recovery /\ events[k].score = 0

\* the life after the first k events of a tick that began with life l
RECURSIVE LifeAfter(_, _, _)
LifeAfter(ev, k, l) ==
    IF k = 0 THEN l
    ELSE IF ev[k].type \in {"Resolved", "Expired"} THEN ev[k].life
    ELSE LifeAfter(ev, k - 1, l)

\* C16: in a tick of the game every Expired event, of a bug or of a recovery item,
\* takes exactly one life, and the tick ends with the damage flash at 5; every
\* Resolved event of a recovery item adds one life, and the tick ends with the
\* recovery glow at 30; nothing else changes the life; the score changes by the
\* scores of the Resolved events only; without an Expired event the flash, and without
\* a resolved recovery item the glow, only count down.
C16_ExpiredCostsOneLife ==
    [][ phase = PhaseGame =>
          LET expired == EventsOfType(events', "Expired")
              resolved == EventsOfType(events', "Resolved")
              recovered == {k \in resolved : events'[k].recovery}
          IN  /\ \A k \in expired :
                    events'[k].life = LifeAfter(events', k - 1, playerLife) - 1
              /\ \A k \in resolved :
                    events'[k].life = LifeAfter(events', k - 1, playerLife)
                                      + (IF events'[k].recovery THEN 1 ELSE 0)
              /\ playerLife' = LifeAfter(events', Len(events'), playerLife)
              /\ playerLife' = playerLife - Cardinality(expired) + Cardinality(recovered)
              /\ damageTime' = (IF expired # {} THEN 5 ELSE Dec(damageTime))
              /\ recoveryTime' = (IF recovered # {} THEN 30 ELSE Dec(recoveryTime))
              /\ score' = score + SumResolved(events', 1) ]_vars

\* C16 witness: a recovery item has expired and taken the fifth life; the game goes on
C16_RecoveryExpired ==
    /\ op = "updateGame" /\ phase = PhaseGame /\ playerLife = 4 /\ damageTime = 5
    /\ \E k \in EventsOfType(events, "Expired") : events[k].recovery /\ events[k].life = 4

\* C17: after every tick every item on the board is unresolved and has lifetime left,
\* at least 1 and at most its initial lifetime; a tick of the game removes from the
\* board every item it resolves and every item whose lifetime runs out in it, and a
\* slot that is empty before a tick is empty after it unless the tick spawned into it.
C17_BoardHoldsLiveItems ==
    /\ [](\A it \in BoardItems :
             ~it.resolved /\ it.lifetime >= 1 /\ it.lifetime <= it.initLifetime)
    /\ [][ \A slot \in Slots :
              /\ (IsNil(items[slot]) /\ ~IsNil(items'[slot])) =>
                    \E k \in EventsOfType(events', "Spawned") : events'[k].slot = slot
              /\ (\E k \in EventsOfType(events', "Resolved") \cup EventsOfType(events', "Expired") :
                     events'[k].slot = slot) => IsNil(items'[slot])
              /\ (~IsNil(items[slot]) /\ phase = PhaseGame /\ items[slot][1].lifetime = 1) =>
                    IsNil(items'[slot]) ]_vars

\* C17 witness: a tick resolved one item and cleared its slot, and left another item,
\* unresolved and with lifetime left, where it was
C17_OneClearedOneKept ==
    /\ op = "updateGame"
    /\ \E k \in EventsOfType(events, "Resolved") : IsNil(items[events[k].slot])
    /\ \E it \in BoardItems : ~it.resolved /\ it.lifetime >= 1 /\ it.lifetime < it.initLifetime - 1

\* the bugs and feature requests on the board
BoardBugs == {it \in BoardItems : ~it.recovery}

\* C18: a tick of the game adds one to the bug id exactly when it spawns a bug or a
\* feature request, and that item carries the new bug id in its label; a recovery
\* spawn, a rejected attempt, a resolved or an expired item leave the bug id alone, and
\* so do the game over and title screens short of the reset; the ids on the board are
\* in 1 .. bugID and no two items carry the same.
C18_BugIdCounts ==
    /\ [](/\ \A it \in BoardBugs : it.label[2] >= 1 /\ it.label[2] <= bugID
          /\ \A a, b \in BoardBugs : a.label[2] = b.label[2] => a = b)
    /\ [][ /\ phase = PhaseGame =>
                /\ bugID' = bugID + Cardinality({k \in EventsOfType(events', "Spawned") :
                                                    ~events'[k].recovery})
                /\ \A it \in SpawnedOnBoard(events', items') :
                      ~it.recovery => (it.label[2] = bugID + 1 /\ it.label[1] \in
                                          {BugLabels[1], BugLabels[2]})
           /\ phase = PhaseGameOver => bugID' = bugID
           /\ (phase = PhaseTitle /\ ~pressed') => bugID' = bugID ]_vars

\* C18 witness: bug 15 has been spawned next to bug 14
C18_NextId ==
    /\ op = "updateGame" /\ bugID = 15
    /\ \E a, b \in BoardBugs : a.label[2] = 14 /\ b.label[2] = 15
    /\ \E it \in SpawnedOnBoard(events, items) : it.label[2] = 15

\* C19: in every tick of the game the lifetime of every item on the board drops by
\* exactly one, the tick that spawns it included (after it the item has L - 1 of its
\* initial lifetime L left); an item is on the board only with lifetime in 1 .. L - 1,
\* so for at most L - 1 ticks after its spawn tick; with one tick left it leaves the
\* board in the next tick of the game, by an Expired event unless it is resolved: an
\* item that is never resolved expires in the L-th tick counted from its spawn tick.
C19_LifetimeCountsDown ==
    /\ [](\A it \in BoardItems : it.lifetime >= 1 /\ it.lifetime <= it.initLifetime - 1)
    /\ [][ phase = PhaseGame =>
             /\ \A it \in SpawnedOnBoard(events', items') : it.lifetime = it.initLifetime - 1
             /\ \A slot \in Occupied(items) :
                   LET it == items[slot][1]
                       gone == {k \in EventsOfType(events', "Expired")
                                        \cup EventsOfType(events', "Resolved") :
                                   events'[k].slot = slot}
                   IN  /\ ~IsNil(items'[slot]) =>
                             /\ items'[slot][1].lifetime = it.lifetime - 1
                             /\ items'[slot][1].initLifetime = it.initLifetime
                       /\ it.lifetime = 1 =>
                             /\ IsNil(items'[slot])
                             /\ \E k \in gone : events'[k].type = "Expired" \/ pressed'
                       /\ \A k \in gone : events'[k].type = "Expired" => it.lifetime = 1 ]_vars

\* C19 witness: the first bug of a new game, spawned with lifetime 400 and never
\* resolved, has expired and taken the first life
C19_FirstBugExpired ==
    /\ op = "updateGame" /\ score = 0 /\ bugID = 1 /\ playerLife = initPlayerLife - 1
    /\ BoardItems = {}
    /\ \E k \in EventsOfType(events, "Expired") : ~events[k].recovery

\* the state initGame leaves, with spawns left for every life
StartOfGame == phase = PhaseGame /\ op = "updateTitle" /\ budget >= initPlayerLife

\* C20: from the reset that starts a game, the game is over after finitely many ticks
\* unless an item is resolved, whatever the draws; the first tick of the game spawns
\* an item, and no attempt is rejected while the board is empty.
C20_UnresolvedSessionEnds ==
    /\ StartOfGame ~> (phase = PhaseGameOver \/ EventsOfType(events, "Resolved") # {})
    /\ [][ /\ StartOfGame => EventsOfType(events', "Spawned") # {}
           /\ (phase = PhaseGame /\ Occupied(items) = {}) =>
                 EventsOfType(events', "Rejected") = {} ]_vars

\* C20 witness: the game is over after three bugs were spawned and all three expired
C20_AllExpired ==
    /\ phase = PhaseGameOver /\ op = "updateGame" /\ score = 0 /\ bugID = 3
    /\ playerLife = 0 /\ BoardItems = {}
    /\ \E k \in EventsOfType(events, "Expired") : events[k].life = 0

====
